---- MODULE Spec2Model ----
(***************************************************************************)
(* Model of sc4-single-cpu (src/src/SingleCPUDllDirector.cpp): a plugin    *)
(* whose startup hook OnStart pins the host process to the lowest logical  *)
(* processor of the system affinity mask, unless the host command line     *)
(* carries the CPUCount switch.                                            *)
(*                                                                         *)
(* DWORD_PTR values are naturals below 2^Width.  The operating system's    *)
(* side of GetProcessAffinityMask / SetProcessAffinityMask and the Logger  *)
(* are outside the source file; they are modelled from the specification's *)
(* interface section and from the documented Win32 contract.               *)
(***************************************************************************)
EXTENDS Integers, Sequences, FiniteSets, TLC

\* Width of DWORD_PTR / intptr_t in the model (32 in the shipped build).
Width == 4
\* How many times the host may invoke the startup hook in one behaviour.
MaxStarts == 2

VARIABLES
    sDirector,     \* the function-local static of RZGetCOMDllDirector
    cmdLine,       \* the host's command line, as IsSwitchPresent sees it
    processMask,   \* the process affinity mask held by the OS
    systemMask,    \* the system affinity mask held by the OS
    calls,         \* OS affinity calls made by the most recent OnStart
    log,           \* lines handed to the Logger, oldest first
    returns,       \* what each OnStart call gave back to the host
    outcome,       \* the path the most recent OnStart took
    maskBefore,    \* processMask when the most recent OnStart was entered
    starts         \* number of OnStart calls so far

vars == <<sDirector, cmdLine, processMask, systemMask, calls, log, returns,
          outcome, maskBefore, starts>>

----------------------------------------------------------------------------
\* Fixed-width integer arithmetic

RECURSIVE Pow2(_)
Pow2(n) == IF n = 0 THEN 1 ELSE 2 * Pow2(n - 1)

Modulus == Pow2(Width)

Masks == 0 .. (Modulus - 1)

RECURSIVE BitAnd(_, _)
BitAnd(a, b) ==
    IF a = 0 \/ b = 0 THEN 0
    ELSE (a % 2) * (b % 2) + 2 * BitAnd(a \div 2, b \div 2)

\* static_cast<intptr_t>(v): reinterpret the bits as a signed value.
ToSigned(v) == IF v >= Pow2(Width - 1) THEN v - Modulus ELSE v

\* Conversion of a signed operand to uintptr_t (usual arithmetic conversions).
ToUnsigned(s) == (s + Modulus) % Modulus

\* Unary minus on intptr_t.  Negating the most negative value overflows; the
\* Windows x86 build this file targets computes the minus with a NEG
\* instruction, whose only result there is the operand itself (negation
\* modulo 2^Width), so that is the one outcome modelled.
NegateSigned(s) == IF s = -Pow2(Width - 1) THEN s ELSE -s

GetLowestSetBitMaskHardCodedOne(value) == 1

\* value & (value - 1): the neighbouring bit trick, which clears the lowest
\* set bit instead of isolating it.
GetLowestSetBitMaskClearsLowest(value) ==
    IF value = 0 THEN 0 ELSE BitAnd(value, value - 1)

GetLowestSetBitMaskNoNegation(value) ==
    BitAnd(value, ToUnsigned(ToSigned(value)))

GetLowestSetBitMask(value) ==
    BitAnd(value, ToUnsigned(NegateSigned(ToSigned(value))))

----------------------------------------------------------------------------
\* Collaborators

SwitchValues == {"", "1", "4"}

CmdLines ==
    {[present |-> FALSE, value |-> ""]}
        \cup {[present |-> TRUE, value |-> v] : v \in SwitchValues}

NoError == "ERROR_SUCCESS"

OsErrors == {"ERROR_ACCESS_DENIED", "ERROR_INVALID_PARAMETER"}

\* pCmdLine->IsSwitchPresent(cRZBaseString("CPUCount"), value, true): the
\* result, and the contents of `value` afterwards (empty when absent).
IsSwitchPresentNonEmptyOnly == cmdLine.present /\ cmdLine.value # ""

IsSwitchPresent == cmdLine.present

SwitchValue == IF cmdLine.present THEN cmdLine.value ELSE ""

\* GetProcessAffinityMask(hProcess, &processAffinityMask, &systemAffinityMask).
\* The out-parameters keep their initial 0 when the call fails.
GetProcessAffinityMask(err) ==
    IF err = NoError
    THEN [op |-> "GetProcessAffinityMask", ok |-> TRUE, err |-> NoError,
          arg |-> 0, processAffinityMask |-> processMask,
          systemAffinityMask |-> systemMask]
    ELSE [op |-> "GetProcessAffinityMask", ok |-> FALSE, err |-> err,
          arg |-> 0, processAffinityMask |-> 0, systemAffinityMask |-> 0]

\* SetProcessAffinityMask(hProcess, mask): one system call.  It rejects an
\* empty mask and a mask naming a processor the system does not have, and
\* may fail for another reason (err); a failed call changes nothing.
SetProcessAffinityMask(mask, err) ==
    LET e == IF mask = 0 \/ BitAnd(mask, systemMask) # mask
             THEN "ERROR_INVALID_PARAMETER"
             ELSE err
    IN  [op |-> "SetProcessAffinityMask", ok |-> (e = NoError), err |-> e,
         arg |-> mask,
         processAffinityMask |-> IF e = NoError THEN mask ELSE processMask,
         systemAffinityMask |-> systemMask]

\* Logger: a leveled line is appended to the sink.
WriteLine(sink, line) == Append(sink, line)

HeaderLine == [level |-> "Header", text |-> "SC4SingleCPU v", arg |-> ""]

----------------------------------------------------------------------------
\* ConfigureForSingleCPU and OnStart

NoException == [type |-> "none", what |-> ""]

ThrowIfWin32BoolFalseIgnored(res) == NoException

\* THROW_IF_WIN32_BOOL_FALSE(call): throws wil::ResultException carrying the
\* OS error when the call returned FALSE.
ThrowIfWin32BoolFalse(res) ==
    IF res.ok THEN NoException
    ELSE [type |-> "wil::ResultException", what |-> res.err]

CatchesNothing(e) == FALSE

\* catch (const wil::ResultException& e)
Catches(e) == e.type = "wil::ResultException"

ConfiguredLineAtErrorLevel ==
    [level |-> "Error", text |-> "Configured the game to use 1 CPU core.",
     arg |-> ""]

ConfiguredLine ==
    [level |-> "Info", text |-> "Configured the game to use 1 CPU core.",
     arg |-> ""]

ErrorLine(what) ==
    [level |-> "Error",
     text |-> "An OS error occurred when configuring the game to use 1 CPU: %s.",
     arg |-> what]

SkippedLine(value) ==
    [level |-> "Info",
     text |-> "Skipped because the command line contains -CPUCount:%s.",
     arg |-> value]

\* The body of ConfigureForSingleCPU as a pure computation: the OS calls it
\* makes in order, the exception leaving the try block (if any), the process
\* mask afterwards and the line it logs.  getErr and setErr are the results
\* the operating system gives to the two calls.
ConfigureTrace(getErr, setErr) ==
    LET q == GetProcessAffinityMask(getErr)
        e1 == ThrowIfWin32BoolFalse(q)
        firstLogicalProcessor == GetLowestSetBitMask(q.systemAffinityMask)
        s == SetProcessAffinityMask(firstLogicalProcessor, setErr)
        e2 == ThrowIfWin32BoolFalse(s)
    IN  IF e1 # NoException
        THEN [calls |-> <<q>>, exc |-> e1, mask |-> processMask]
        ELSE IF e2 # NoException
        THEN [calls |-> <<q, s>>, exc |-> e2, mask |-> s.processAffinityMask]
        ELSE [calls |-> <<q, s>>, exc |-> NoException,
              mask |-> s.processAffinityMask]

ConfigureForSingleCPU(getErr, setErr) ==
    LET t == ConfigureTrace(getErr, setErr) IN
    /\ calls' = t.calls
    /\ processMask' = t.mask
    /\ IF t.exc = NoException
       THEN /\ log' = WriteLine(log, ConfiguredLine)
            /\ outcome' = "Configured"
            /\ returns' = Append(returns, "true")
       ELSE IF Catches(t.exc)
       THEN /\ log' = WriteLine(log, ErrorLine(t.exc.what))
            /\ outcome' = "Failed"
            /\ returns' = Append(returns, "true")
       ELSE /\ log' = log
            /\ outcome' = "Threw"
            /\ returns' = Append(returns, "exception")

\* RZGetCOMDllDirector: the first call constructs the static director, whose
\* constructor initialises the Logger and writes the log file header; later
\* calls return the same object.
RZGetCOMDllDirector ==
    /\ IF sDirector = "uninitialized"
       THEN /\ sDirector' = "constructed"
            /\ log' = WriteLine(log, HeaderLine)
       ELSE UNCHANGED <<sDirector, log>>
    /\ UNCHANGED <<cmdLine, processMask, systemMask, calls, returns, outcome,
                   maskBefore, starts>>

\* SingleCPUDllDirector::OnStart
OnStart ==
    /\ sDirector = "constructed"
    /\ starts < MaxStarts
    /\ starts' = starts + 1
    /\ maskBefore' = processMask
    /\ IF IsSwitchPresent
       THEN /\ log' = WriteLine(log, SkippedLine(SwitchValue))
            /\ outcome' = "Skipped"
            /\ calls' = <<>>
            /\ returns' = Append(returns, "true")
            /\ UNCHANGED processMask
       ELSE \E getErr \in {NoError} \cup OsErrors,
               setErr \in {NoError} \cup OsErrors :
                ConfigureForSingleCPU(getErr, setErr)
    /\ UNCHANGED <<sDirector, cmdLine, systemMask>>

\* Before the plugin is loaded.  The process mask is a non-empty subset of
\* the system mask; a process whose threads span several processor groups is
\* reported with both masks zero.
Init ==
    /\ sDirector = "uninitialized"
    /\ cmdLine \in CmdLines
    /\ systemMask \in Masks
    /\ processMask \in Masks
    /\ BitAnd(processMask, systemMask) = processMask
    /\ (processMask = 0) <=> (systemMask = 0)
    /\ calls = <<>>
    /\ log = <<>>
    /\ returns = <<>>
    /\ outcome = "NotConfigured"
    /\ maskBefore = processMask
    /\ starts = 0

Next == RZGetCOMDllDirector \/ OnStart

Spec == Init /\ [][Next]_vars

----------------------------------------------------------------------------
\* Vocabulary of the properties

Bit(m, i) == (m \div Pow2(i)) % 2 = 1

OneBit(m) == \E i \in 0 .. (Width - 1) : m = Pow2(i)

SubMask(a, b) == \A i \in 0 .. (Width - 1) : Bit(a, i) => Bit(b, i)

\* r is the mask of the lowest-numbered set bit of m.
IsLowestSetBitOf(r, m) ==
    \E i \in 0 .. (Width - 1) :
        /\ r = Pow2(i)
        /\ Bit(m, i)
        /\ \A j \in 0 .. (i - 1) : ~Bit(m, j)

SetCalls ==
    {calls[i] : i \in {k \in DOMAIN calls :
                          calls[k].op = "SetProcessAffinityMask"}}

QueryFailed == Len(calls) >= 1 /\ ~calls[1].ok

SetFailed == Len(calls) = 2 /\ ~calls[2].ok

LastLine == log[Len(log)]

----------------------------------------------------------------------------
\* C1: for every non-zero system mask M, the top-bit-only mask included, the
\* value GetLowestSetBitMask(M) that OnStart hands to SetProcessAffinityMask
\* has exactly one bit set, that bit is set in M and no lower bit of M is
\* set; 0b0110 gives 0b0010, 0b1001 gives 0b0001 and 0b1000 gives 0b1000.
C1_LowestSetBit ==
    \A c \in SetCalls :
        systemMask # 0 =>
            /\ OneBit(c.arg)
            /\ IsLowestSetBitOf(c.arg, systemMask)
            /\ (systemMask = 6 => c.arg = 2)
            /\ (systemMask = 9 => c.arg = 1)
            /\ (systemMask = 8 => c.arg = 8)

\* The selection has been applied to the mask whose only set bit is the top one.
C1_Witness ==
    /\ systemMask = Pow2(Width - 1)
    /\ \E c \in SetCalls : c.arg = Pow2(Width - 1)

\* C2: when the CPUCount switch is present, with any value, a run of OnStart
\* makes no OS affinity call, leaves the process mask as it was, ends as
\* Skipped and logs the switch's value verbatim.
C2_OverridePrecedence ==
    (cmdLine.present /\ starts >= 1) =>
        /\ calls = <<>>
        /\ processMask = maskBefore
        /\ outcome = "Skipped"
        /\ LastLine.level = "Info"
        /\ LastLine.text = "Skipped because the command line contains -CPUCount:%s."
        /\ LastLine.arg = cmdLine.value

\* OnStart has run with the switch present and carrying the empty string.
C2_Witness ==
    /\ cmdLine.present
    /\ cmdLine.value = ""
    /\ starts >= 1
    /\ outcome = "Skipped"

\* C3: every call of OnStart returns true to the host, whatever the outcome;
\* a failed OS call never leaves OnStart as an exception.
C3_FailOpen ==
    /\ Len(returns) = starts
    /\ \A i \in DOMAIN returns : returns[i] = "true"
    /\ outcome # "Threw"

\* OnStart has returned after a failed SetProcessAffinityMask.
C3_Witness ==
    /\ outcome = "Failed"
    /\ SetFailed
    /\ returns[Len(returns)] = "true"

\* C4: with no switch and both OS calls succeeding, OnStart makes one query
\* and one set call, the process mask afterwards is exactly the lowest set
\* bit of the system mask (0b1010 gives 0b0010), and the run ends Configured.
C4_AppliesLowestBit ==
    (~cmdLine.present /\ starts >= 1 /\ Len(calls) = 2 /\ calls[1].ok /\ calls[2].ok) =>
        /\ outcome = "Configured"
        /\ Cardinality(DOMAIN calls) = 2
        /\ calls[1].op = "GetProcessAffinityMask"
        /\ calls[2].op = "SetProcessAffinityMask"
        /\ calls[2].arg = processMask
        /\ IsLowestSetBitOf(processMask, systemMask)
        /\ (systemMask = 10 => processMask = 2)

\* System mask 0b1010 with the process previously on both processors.
C4_Witness ==
    /\ systemMask = 10
    /\ maskBefore = 10
    /\ outcome = "Configured"
    /\ processMask = 2

\* C5: if the query or the set call failed during OnStart, the process mask
\* afterwards equals the mask before, and after a failed query
\* SetProcessAffinityMask is not called.
C5_UnchangedOnError ==
    /\ (QueryFailed \/ SetFailed) => processMask = maskBefore
    /\ QueryFailed => SetCalls = {}

\* A set call naming a processor other than the current ones has failed.
C5_Witness ==
    /\ SetFailed
    /\ calls[2].arg # 0
    /\ calls[2].arg # maskBefore
    /\ outcome = "Failed"

\* C6: every run of OnStart hands exactly one line to the log sink: Info
\* level when affinity was applied or configuration was skipped, Error level
\* carrying the OS diagnostic when the query or the set call failed.
C6_OneLinePerRun ==
    sDirector = "constructed" =>
        /\ Len(log) = starts + 1
        /\ \A i \in 2 .. Len(log) : log[i].level \in {"Info", "Error"}
        /\ outcome \in {"Configured", "Skipped"} => LastLine.level = "Info"
        /\ outcome = "Configured" => LastLine.text = "Configured the game to use 1 CPU core."
        /\ outcome = "Failed" =>
              /\ LastLine.level = "Error"
              /\ LastLine.arg \in OsErrors
              /\ LastLine.arg = calls[Len(calls)].err
        /\ starts >= 1 => outcome \in {"Configured", "Skipped", "Failed"}

\* Two runs, the second one successful: the header and two lines.
C6_Witness ==
    /\ starts = 2
    /\ outcome = "Configured"
    /\ Len(log) = 3
    /\ LastLine.level = "Info"

\* C7: a second call of OnStart is rejected or is a no-op: it makes no
\* affinity query or set and changes nothing (stated for the machines whose
\* system mask is not empty).
C7_SecondCallIsNoOp ==
    (starts >= 2 /\ systemMask # 0) =>
        /\ calls = <<>>
        /\ processMask = maskBefore

\* C8 as stated: the argument of every set call lies within the process
\* mask returned by the preceding query.
C8_WithinProcessMask ==
    \A c \in SetCalls :
        (calls[1].ok /\ calls[1].processAffinityMask # 0) =>
            SubMask(c.arg, calls[1].processAffinityMask)

\* C8 amended: when the masks returned by the query are non-empty, the
\* argument of the set call is one bit of the SYSTEM affinity mask returned
\* by that query; it need not lie within the process's current mask.
C8_WithinSystemMask ==
    \A c \in SetCalls :
        (calls[1].ok /\ calls[1].processAffinityMask # 0) =>
            /\ c.arg # 0
            /\ OneBit(c.arg)
            /\ SubMask(c.arg, calls[1].systemAffinityMask)

\* The set call named a processor of the system that the process was not on.
C8_Witness ==
    \E c \in SetCalls :
        /\ calls[1].ok
        /\ calls[1].processAffinityMask # 0
        /\ ~SubMask(c.arg, calls[1].processAffinityMask)
        /\ SubMask(c.arg, calls[1].systemAffinityMask)

\* C9: for every system mask a successful query can return, 0 included,
\* every mask passed to SetProcessAffinityMask has exactly one bit set, that
\* bit is in the system mask, and the mask is never empty.
C9_SetCallNeverEmpty ==
    \A c \in SetCalls :
        calls[1].ok =>
            /\ c.arg # 0
            /\ OneBit(c.arg)
            /\ SubMask(c.arg, calls[1].systemAffinityMask)

\* C10: after a successful ConfigureForSingleCPU, a second successful
\* execution with the same system mask leaves the process mask as the first
\* left it, and the selection applied to its own result returns that result.
C10_Idempotent ==
    outcome = "Configured" =>
        /\ ConfigureTrace(NoError, NoError).exc = NoException
        /\ ConfigureTrace(NoError, NoError).mask = processMask
        /\ GetLowestSetBitMask(GetLowestSetBitMask(systemMask))
               = GetLowestSetBitMask(systemMask)
        /\ (starts >= 2 /\ log[Len(log) - 1].text = LastLine.text) =>
               maskBefore = processMask

\* ConfigureForSingleCPU has succeeded twice in sequence on a system mask
\* with several processors.
C10_Witness ==
    /\ starts = 2
    /\ outcome = "Configured"
    /\ Len(log) = 3
    /\ log[2].text = "Configured the game to use 1 CPU core."
    /\ ~OneBit(systemMask)
    /\ maskBefore = processMask

====
